---- MODULE Spec2Model ----
(***************************************************************************)
(* Model of src/scheduler_worker.js: a web worker that runs a branch and   *)
(* bound backtracking search assigning one lecture slot to every faculty   *)
(* member, posting progress, improved solutions and a final summary.       *)
(*                                                                         *)
(* The worker is a single JavaScript thread.  A handler invocation runs    *)
(* without interruption until it awaits the zero-delay timer of            *)
(* yieldWorker; only then can the event loop deliver another message or    *)
(* fire another timer.  `active` names the handler holding the thread.     *)
(* The recursion of solveForFaculty is kept as an explicit stack of        *)
(* frames, one handler invocation per delivered message.                   *)
(***************************************************************************)
EXTENDS Integers, Sequences, FiniteSets, TLC

(* ------------------------------ bounds --------------------------------- *)
MaxLectures == 3
ReportLectures == 37
MaxMsgs == 2
LongLectures == 32

(* ------------------------- program constants --------------------------- *)
ProgressInterval == 1000

(* ------------------------------ universe ------------------------------- *)
FacultyNames == <<"A", "B">>
TimeSlots == {"9am", "10am"}
Handlers == 1..MaxMsgs

VARIABLES inbox, delivered, hstate, active, req, schedule,
          assignedLectureSlots, facultyTimeSlotMap, progressState,
          shuffledFaculty, stack, out, cancelSeen

vars == <<inbox, delivered, hstate, active, req, schedule,
          assignedLectureSlots, facultyTimeSlotMap, progressState,
          shuffledFaculty, stack, out, cancelSeen>>

(* ------------------------------ helpers -------------------------------- *)
Range(s) == {s[i] : i \in DOMAIN s}

Last(s) == s[Len(s)]

RECURSIVE SetToSeq(_)
SetToSeq(S) ==
    IF S = {} THEN <<>>
    ELSE LET x == CHOOSE y \in S : TRUE IN <<x>> \o SetToSeq(S \ {x})

(* ---------------------- JavaScript Map as a sequence -------------------- *)
(* A Map keeps its entries in insertion order; an entry is <<key, value>>.  *)
MapHas(m, k) == \E i \in DOMAIN m : m[i][1] = k

MapSet(m, k, v) ==
    IF MapHas(m, k)
    THEN [i \in DOMAIN m |-> IF m[i][1] = k THEN <<k, v>> ELSE m[i]]
    ELSE Append(m, <<k, v>>)

MapDelete(m, k) ==
    LET Keep(e) == e[1] # k IN SelectSeq(m, Keep)

(* new Map(pairs.map(([k, v]) => [k, new Set(v)])): a later pair with the   *)
(* same key replaces an earlier one; each value array becomes a set.        *)
ReconstructPreferredSlots(pairs) ==
    [k \in {pairs[i][1] : i \in DOMAIN pairs} |->
        LET last == CHOOSE i \in DOMAIN pairs :
                        /\ pairs[i][1] = k
                        /\ \A j \in DOMAIN pairs : pairs[j][1] = k => j <= i
        IN Range(pairs[last][2])]

(* map.get(key) || new Set() *)
GetOrEmpty(map, key) == IF key \in DOMAIN map THEN map[key] ELSE {}

(* ------------------------------ shuffle -------------------------------- *)
Swap(array, i, j) ==
    [k \in DOMAIN array |->
        IF k = i THEN array[j] ELSE IF k = j THEN array[i] ELSE array[k]]

(* The draws of Math.floor(Math.random() * (i + 1)), for each position i    *)
(* the loop visits (1-based here: positions n down to 2, draw in 1..i).     *)
RandomDraws(n) == {r \in [2..n -> 1..n] : \A i \in 2..n : r[i] <= i}

RECURSIVE ShuffleFrom(_, _, _)
ShuffleFrom(array, i, rand) ==
    IF i <= 1 THEN array
    ELSE ShuffleFrom(Swap(array, i, rand[i]), i - 1, rand)

shuffleArray(array, rand) == ShuffleFrom(array, Len(array), rand)

(* ------------------------------ payloads ------------------------------- *)
(* event.data.  hasData = FALSE is a message posted with no payload;        *)
(* `missing` names the fields of the payload that are undefined.            *)
NoPayload ==
    [hasData |-> FALSE, missing |-> {}, allFaculty |-> <<>>,
     allLectureSlots |-> <<>>, facultyPreferredSlots |-> <<>>,
     initialBestScore |-> 0]

StartRequest(fac, lects, prefs, init) ==
    [hasData |-> TRUE, missing |-> {}, allFaculty |-> fac,
     allLectureSlots |-> lects, facultyPreferredSlots |-> prefs,
     initialBestScore |-> init]

MalformedPayloads ==
    {[hasData |-> TRUE, missing |-> m, allFaculty |-> <<>>,
      allLectureSlots |-> <<>>, facultyPreferredSlots |-> <<>>,
      initialBestScore |-> 1] :
        m \in {{"facultyPreferredSlots"}, {"allLectureSlots"}, {"allFaculty"},
               {"allFaculty", "allLectureSlots", "facultyPreferredSlots"}}}

(* The first statement of the handler body that throws, if any.             *)
FirstFault(data) ==
    IF "facultyPreferredSlots" \in data.missing
    THEN "facultyPreferredSlots.map"
    ELSE IF "allLectureSlots" \in data.missing
    THEN "allLectureSlots is not iterable"
    ELSE IF "allFaculty" \in data.missing
    THEN "allFaculty is not iterable"
    ELSE "none"

(* --------------------------- input families ---------------------------- *)
FacultyPrefix(n) == SubSeq(FacultyNames, 1, n)

LectureLists(maxLen) ==
    UNION {{[i \in 1..n |-> [id |-> i, timeSlot |-> t[i]]] :
                t \in [1..n -> TimeSlots]} : n \in 0..maxLen}

(* One wire-format preference list per choice of preferred sets: a pair for *)
(* every faculty name with a non-empty set, the set sent as an array.       *)
PreferencePairs(names) ==
    {LET Listed(k) == p[k] # {}
         keys == SelectSeq(names, Listed)
     IN [i \in 1..Len(keys) |-> <<keys[i], SetToSeq(p[keys[i]])>>] :
        p \in [Range(names) -> SUBSET TimeSlots]}

WellFormedRequests ==
    UNION {{StartRequest(FacultyPrefix(n), l, p, b) :
                l \in LectureLists(MaxLectures),
                p \in PreferencePairs(FacultyPrefix(n)),
                b \in (-1)..(n + 1)} : n \in 0..Len(FacultyNames)}

(* Requests whose two lecture slots carry the same id.                      *)
DuplicateIdRequests ==
    UNION {{StartRequest(FacultyPrefix(n),
                         <<[id |-> 1, timeSlot |-> t[1]],
                           [id |-> 1, timeSlot |-> t[2]]>>, p, b) :
                t \in [{1, 2} -> TimeSlots],
                p \in PreferencePairs(FacultyPrefix(n)),
                b \in {1, n + 1}} : n \in 1..Len(FacultyNames)}

(* Requests whose preference list names a faculty member that is not in     *)
(* the faculty list.                                                        *)
StrayPreferenceRequests ==
    UNION {{StartRequest(FacultyPrefix(n), l,
                         p \o << <<"Z", <<"9am">> >> >>, b) :
                l \in LectureLists(2),
                p \in PreferencePairs(FacultyPrefix(n)),
                b \in {1, n + 1}} : n \in 0..Len(FacultyNames)}

(* Requests that list the same faculty member twice: the second node of    *)
(* that member meets a non-empty set of consumed time slots.                *)
DuplicateFacultyRequests ==
    {StartRequest(<<"A", "A">>, l, p, b) :
        l \in LectureLists(MaxLectures),
        p \in PreferencePairs(<<"A">>),
        b \in {1, 3}}

(* Long searches: many lecture slots in one time slot, bound 2, and the     *)
(* faculty either prefer no time slot or all prefer that one.               *)
LongRequests ==
    {StartRequest(FacultyNames,
                  [i \in 1..LongLectures |-> [id |-> i, timeSlot |-> "9am"]],
                  p, 2) :
        p \in {<<>>, [i \in DOMAIN FacultyNames |->
                        <<FacultyNames[i], <<"9am">> >>]}}

(* Searches that enter a node exactly when the counter is at the reporting *)
(* interval: with two faculty and ReportLectures slots in one time slot the *)
(* k-th second-level node is entered after ReportLectures * (k - 1) + 1     *)
(* attempts.                                                                *)
ReportRequests ==
    {StartRequest(FacultyNames,
                  [i \in 1..ReportLectures |-> [id |-> i, timeSlot |-> "9am"]],
                  p, 2) :
        p \in {<<>>, [i \in DOMAIN FacultyNames |->
                        <<FacultyNames[i], <<"9am">> >>]}}

(* Two faculty, one lecture slot in each time slot, every choice of        *)
(* preferences, bound 2 or 3: the requests sent in pairs.                   *)
PairRequests ==
    {StartRequest(FacultyNames,
                  <<[id |-> 1, timeSlot |-> "9am"],
                    [id |-> 2, timeSlot |-> "10am"]>>, p, b) :
        p \in PreferencePairs(FacultyNames),
        b \in {2, 3}}

(* ----------------------------- initial state --------------------------- *)
NoProgress == [facultyIndex |-> 0, combinations |-> 0, bestScore |-> 0]
NotSeen == [seen |-> FALSE, combinations |-> 0, bestScore |-> 0]

InitWith(msgs) ==
    /\ inbox = msgs
    /\ delivered = 0
    /\ hstate = [h \in Handlers |-> "pending"]
    /\ active = 0
    /\ req = [h \in Handlers |-> NoPayload]
    /\ schedule = [h \in Handlers |-> <<>>]
    /\ assignedLectureSlots = [h \in Handlers |-> {}]
    /\ facultyTimeSlotMap = [h \in Handlers |-> <<>>]
    /\ progressState = [h \in Handlers |-> NoProgress]
    /\ shuffledFaculty = [h \in Handlers |-> <<>>]
    /\ stack = [h \in Handlers |-> <<>>]
    /\ out = [h \in Handlers |-> <<>>]
    /\ cancelSeen = [h \in Handlers |-> NotSeen]

Init ==
    \E m \in WellFormedRequests \cup DuplicateIdRequests
                \cup StrayPreferenceRequests
                \cup {NoPayload} \cup MalformedPayloads :
        InitWith(<<m>>)

(* ------------------------- candidate generation ------------------------ *)
(* possible.sort((a, b) => b.isHappy - a.isHappy): a stable sort that puts  *)
(* the isHappy entries first.                                               *)
(* Variant: the sort puts the non-preferred candidates first.               *)
SortUnhappyFirst(possible) ==
    LET Happy(c) == c.isHappy
        Unhappy(c) == ~c.isHappy
    IN SelectSeq(possible, Unhappy) \o SelectSeq(possible, Happy)

SortHappyFirst(possible) ==
    LET Happy(c) == c.isHappy
        Unhappy(c) == ~c.isHappy
    IN SelectSeq(possible, Happy) \o SelectSeq(possible, Unhappy)

(* Variant: the filter forgets the consumed-time-slot test.                 *)
EligibleIgnoringTime(l, assignedLectures, assignedTimes) ==
    l.id \notin assignedLectures

(* Variant: the filter forgets the consumed-lecture test.                   *)
EligibleIgnoringId(l, assignedLectures, assignedTimes) ==
    l.timeSlot \notin assignedTimes

Eligible(l, assignedLectures, assignedTimes) ==
    l.id \notin assignedLectures /\ l.timeSlot \notin assignedTimes

(* Variant: the preference test is inverted.                                *)
IsHappyNegated(preferredSlots, l) == l.timeSlot \notin preferredSlots

IsHappy(preferredSlots, l) == l.timeSlot \in preferredSlots

Possible(allLectureSlots, assignedLectures, assignedTimes, preferredSlots) ==
    LET Free(l) == Eligible(l, assignedLectures, assignedTimes)
        free == SelectSeq(allLectureSlots, Free)
    IN SortHappyFirst([k \in 1..Len(free) |->
            [lecture |-> free[k],
             isHappy |-> IsHappy(preferredSlots, free[k])]])

(* ------------------------------ the search ----------------------------- *)
Frame(facultyIndex, currentUnhappy) ==
    [facultyIndex |-> facultyIndex, currentUnhappy |-> currentUnhappy,
     pc |-> "enter", possible |-> <<>>, i |-> 1]

Top(h) == Last(stack[h])

SetTop(h, f) == [stack EXCEPT ![h] = [@ EXCEPT ![Len(@)] = f]]

Running(h) == active = h /\ hstate[h] = "running" /\ stack[h] # <<>>

(* allFaculty[facultyIndex]; the source indexes from 0.                     *)
(* Variant: the search walks the shuffled copy.                             *)
FacultyAtShuffled(h, facultyIndex) == shuffledFaculty[h][facultyIndex + 1]

FacultyAt(h, facultyIndex) == req[h].allFaculty[facultyIndex + 1]

(* Variants: the pruning test is off by one in either direction.           *)
PrunedOffByOne(currentUnhappy, bestScore) == currentUnhappy + 1 >= bestScore

PrunedStrict(currentUnhappy, bestScore) == currentUnhappy > bestScore

Pruned(currentUnhappy, bestScore) == currentUnhappy >= bestScore

IsTerminal(h, f) == f.facultyIndex = Len(req[h].allFaculty)

(* Variant: the report is due one attempt after the interval.              *)
AtReportPointLate(combinations) == combinations % ProgressInterval = 1

AtReportPoint(combinations) == combinations % ProgressInterval = 0

Entering(h) == Running(h) /\ Top(h).pc = "enter"

EnteringOpen(h) ==
    /\ Entering(h)
    /\ ~Pruned(Top(h).currentUnhappy, progressState[h].bestScore)

SolutionMessage(sched, score) ==
    [type |-> "solutionUpdate", schedule |-> sched, score |-> score]

ProgressMessage(facultyIndex, faculty, combinations) ==
    [type |-> "progressUpdate", facultyIndex |-> facultyIndex,
     facultyName |-> faculty, combinations |-> combinations]

(* Variant: the summary reports the depth last entered as the score.       *)
CompleteMessageDepth(ps) ==
    [type |-> "complete", finalCombinations |-> ps.combinations,
     finalScore |-> ps.facultyIndex]

CompleteMessage(ps) ==
    [type |-> "complete", finalCombinations |-> ps.combinations,
     finalScore |-> ps.bestScore]

ErrorMessage(text) == [type |-> "error", message |-> text]

(* Variant: the search posts the summary itself and the handler posts it   *)
(* again.                                                                   *)
PostOnReturnTwice(ps) == <<CompleteMessage(ps), CompleteMessage(ps)>>

(* The messages posted when the handler's await of the search returns.      *)
PostOnReturn(ps) == <<CompleteMessage(ps)>>

(* line 44: the branch cannot beat the best score, return at once.          *)
Prune(h) ==
    /\ Entering(h)
    /\ Pruned(Top(h).currentUnhappy, progressState[h].bestScore)
    /\ stack' = SetTop(h, [Top(h) EXCEPT !.pc = "ret"])
    /\ UNCHANGED <<inbox, delivered, hstate, active, req, schedule,
                   assignedLectureSlots, facultyTimeSlotMap, progressState,
                   shuffledFaculty, out, cancelSeen>>

(* lines 46-58: every faculty member is placed; record and post.            *)
Solution(h) ==
    /\ EnteringOpen(h)
    /\ IsTerminal(h, Top(h))
    /\ progressState' = [progressState EXCEPT
            ![h].facultyIndex = Top(h).facultyIndex,
            ![h].bestScore = Top(h).currentUnhappy]
    /\ out' = [out EXCEPT ![h] =
            Append(@, SolutionMessage(schedule[h], Top(h).currentUnhappy))]
    /\ stack' = SetTop(h, [Top(h) EXCEPT !.pc = "ret"])
    /\ UNCHANGED <<inbox, delivered, hstate, active, req, schedule,
                   assignedLectureSlots, facultyTimeSlotMap,
                   shuffledFaculty, cancelSeen>>

(* lines 46, 60-71: post a progress message and await the timer.            *)
ProgressYield(h) ==
    /\ EnteringOpen(h)
    /\ ~IsTerminal(h, Top(h))
    /\ AtReportPoint(progressState[h].combinations)
    /\ progressState' = [progressState EXCEPT
            ![h].facultyIndex = Top(h).facultyIndex]
    /\ out' = [out EXCEPT ![h] =
            Append(@, ProgressMessage(Top(h).facultyIndex,
                                      FacultyAt(h, Top(h).facultyIndex),
                                      progressState[h].combinations))]
    /\ stack' = SetTop(h, [Top(h) EXCEPT !.pc = "await"])
    /\ active' = 0
    /\ UNCHANGED <<inbox, delivered, hstate, req, schedule,
                   assignedLectureSlots, facultyTimeSlotMap,
                   shuffledFaculty, cancelSeen>>

(* Variant: the promise of yieldWorker is never resolved.                   *)
TimerNeverFires(h) ==
    /\ FALSE
    /\ UNCHANGED vars

(* yieldWorker's timer fires: the suspended search takes the thread again.  *)
TimerFires(h) ==
    /\ active = 0
    /\ hstate[h] = "running"
    /\ stack[h] # <<>>
    /\ Top(h).pc = "await"
    /\ stack' = SetTop(h, [Top(h) EXCEPT !.pc = "resumed"])
    /\ active' = h
    /\ UNCHANGED <<inbox, delivered, hstate, req, schedule,
                   assignedLectureSlots, facultyTimeSlotMap, progressState,
                   shuffledFaculty, out, cancelSeen>>

(* lines 46, 60, 75-84: build the sorted candidate list of this node.       *)
Generate(h) ==
    /\ Running(h)
    /\ \/ Top(h).pc = "resumed"
       \/ /\ EnteringOpen(h)
          /\ ~IsTerminal(h, Top(h))
          /\ ~AtReportPoint(progressState[h].combinations)
    /\ LET f == Top(h)
           faculty == FacultyAt(h, f.facultyIndex)
           assignedTimes == GetOrEmpty(facultyTimeSlotMap[h], faculty)
           preferredSlots ==
               GetOrEmpty(ReconstructPreferredSlots(
                              req[h].facultyPreferredSlots), faculty)
       IN /\ progressState' = [progressState EXCEPT
                  ![h].facultyIndex = f.facultyIndex]
          /\ stack' = SetTop(h, [f EXCEPT
                  !.pc = "loop",
                  !.possible = Possible(req[h].allLectureSlots,
                                        assignedLectureSlots[h],
                                        assignedTimes, preferredSlots),
                  !.i = 1])
    /\ UNCHANGED <<inbox, delivered, hstate, active, req, schedule,
                   assignedLectureSlots, facultyTimeSlotMap,
                   shuffledFaculty, out, cancelSeen>>

(* Variant: every placement is counted as non-preferred.                    *)
NewUnhappyAlways(currentUnhappy, isHappy) == currentUnhappy + 1

NewUnhappy(currentUnhappy, isHappy) ==
    currentUnhappy + (IF isHappy THEN 0 ELSE 1)

(* lines 86-95: count the attempt, add it tentatively and recurse.          *)
TryCandidate(h) ==
    /\ Running(h)
    /\ Top(h).pc = "loop"
    /\ Top(h).i <= Len(Top(h).possible)
    /\ LET f == Top(h)
           c == f.possible[f.i]
           faculty == FacultyAt(h, f.facultyIndex)
           assignedTimes == GetOrEmpty(facultyTimeSlotMap[h], faculty)
       IN /\ progressState' = [progressState EXCEPT
                  ![h].combinations = @ + 1]
          /\ schedule' = [schedule EXCEPT ![h] = MapSet(@, faculty, c)]
          /\ assignedLectureSlots' = [assignedLectureSlots EXCEPT
                  ![h] = @ \cup {c.lecture.id}]
          /\ facultyTimeSlotMap' = [facultyTimeSlotMap EXCEPT ![h] =
                  [k \in DOMAIN @ \cup {faculty} |->
                      IF k = faculty
                      THEN assignedTimes \cup {c.lecture.timeSlot}
                      ELSE @[k]]]
          /\ stack' = [stack EXCEPT ![h] =
                  Append(@, Frame(f.facultyIndex + 1,
                                  NewUnhappy(f.currentUnhappy, c.isHappy)))]
    /\ UNCHANGED <<inbox, delivered, hstate, active, req,
                   shuffledFaculty, out, cancelSeen>>

Finished(f) ==
    f.pc = "ret" \/ (f.pc = "loop" /\ f.i > Len(f.possible))

(* Variant: the time slot is not released on backtrack.                     *)
BacktrackKeepsTime(st, faculty, c) ==
    [schedule |-> MapDelete(st.schedule, faculty),
     assignedLectureSlots |-> st.assignedLectureSlots \ {c.lecture.id},
     facultyTimeSlotMap |-> st.facultyTimeSlotMap]

(* Variant: the lecture id is not released on backtrack.                    *)
BacktrackKeepsLecture(st, faculty, c) ==
    [schedule |-> MapDelete(st.schedule, faculty),
     assignedLectureSlots |-> st.assignedLectureSlots,
     facultyTimeSlotMap |->
        [st.facultyTimeSlotMap EXCEPT ![faculty] = @ \ {c.lecture.timeSlot}]]

(* lines 97-100: what the caller undoes once the recursive call is back.    *)
Backtrack(st, faculty, c) ==
    [schedule |-> MapDelete(st.schedule, faculty),
     assignedLectureSlots |-> st.assignedLectureSlots \ {c.lecture.id},
     facultyTimeSlotMap |->
        [st.facultyTimeSlotMap EXCEPT ![faculty] = @ \ {c.lecture.timeSlot}]]

(* A call returns (pruned, solved or loop exhausted); its caller, if any,   *)
(* backtracks and moves to its next candidate.                              *)
Return(h) ==
    /\ Running(h)
    /\ Finished(Top(h))
    /\ IF Len(stack[h]) = 1
       THEN /\ stack' = [stack EXCEPT ![h] = <<>>]
            /\ UNCHANGED <<schedule, assignedLectureSlots, facultyTimeSlotMap>>
       ELSE LET p == stack[h][Len(stack[h]) - 1]
                b == Backtrack(
                        [schedule |-> schedule[h],
                         assignedLectureSlots |-> assignedLectureSlots[h],
                         facultyTimeSlotMap |-> facultyTimeSlotMap[h]],
                        FacultyAt(h, p.facultyIndex), p.possible[p.i])
            IN /\ stack' = [stack EXCEPT ![h] =
                       [k \in 1..(Len(@) - 1) |->
                           IF k = Len(@) - 1
                           THEN [p EXCEPT !.i = p.i + 1] ELSE @[k]]]
               /\ schedule' = [schedule EXCEPT ![h] = b.schedule]
               /\ assignedLectureSlots' = [assignedLectureSlots EXCEPT
                       ![h] = b.assignedLectureSlots]
               /\ facultyTimeSlotMap' = [facultyTimeSlotMap EXCEPT
                       ![h] = b.facultyTimeSlotMap]
    /\ UNCHANGED <<inbox, delivered, hstate, active, req, progressState,
                   shuffledFaculty, out, cancelSeen>>

(* lines 108-111, 135: the search returned; post the final summary.         *)
Complete(h) ==
    /\ active = h
    /\ hstate[h] = "running"
    /\ stack[h] = <<>>
    /\ out' = [out EXCEPT ![h] = @ \o PostOnReturn(progressState[h])]
    /\ hstate' = [hstate EXCEPT ![h] = "done"]
    /\ active' = 0
    /\ UNCHANGED <<inbox, delivered, req, schedule, assignedLectureSlots,
                   facultyTimeSlotMap, progressState, shuffledFaculty,
                   stack, cancelSeen>>

(* --------------------------- message delivery -------------------------- *)
Deliverable == active = 0 /\ inbox # <<>> /\ delivered < MaxMsgs

Suspended(h) ==
    hstate[h] = "running" /\ stack[h] # <<>> /\ Last(stack[h]).pc = "await"

(* line 118: destructuring undefined throws before the try block is         *)
(* entered; the async handler's promise rejects and nothing is posted.      *)
(* cancelSeen records, for every search suspended at that moment, the       *)
(* counters it held when the payload-free message became observable.        *)
ReceiveNoPayload ==
    /\ Deliverable
    /\ ~Head(inbox).hasData
    /\ inbox' = Tail(inbox)
    /\ delivered' = delivered + 1
    /\ hstate' = [hstate EXCEPT ![delivered + 1] = "rejected"]
    /\ req' = [req EXCEPT ![delivered + 1] = Head(inbox)]
    /\ cancelSeen' = [h \in Handlers |->
            IF Suspended(h) /\ ~cancelSeen[h].seen
            THEN [seen |-> TRUE,
                  combinations |-> progressState[h].combinations,
                  bestScore |-> progressState[h].bestScore]
            ELSE cancelSeen[h]]
    /\ UNCHANGED <<active, schedule, assignedLectureSlots,
                   facultyTimeSlotMap, progressState, shuffledFaculty,
                   stack, out>>

(* lines 120-123, 35, 104, 136-138: a payload with an undefined field       *)
(* throws inside the try block; the catch posts the error message.          *)
ReceiveMalformed ==
    /\ Deliverable
    /\ Head(inbox).hasData
    /\ FirstFault(Head(inbox)) # "none"
    /\ inbox' = Tail(inbox)
    /\ delivered' = delivered + 1
    /\ hstate' = [hstate EXCEPT ![delivered + 1] = "done"]
    /\ req' = [req EXCEPT ![delivered + 1] = Head(inbox)]
    /\ out' = [out EXCEPT ![delivered + 1] =
            Append(@, ErrorMessage(FirstFault(Head(inbox))))]
    /\ UNCHANGED <<active, schedule, assignedLectureSlots,
                   facultyTimeSlotMap, progressState, shuffledFaculty,
                   stack, cancelSeen>>

(* Variant: the bound starts one above the heuristic score.                 *)
InitialProgressStateLoose(initialBestScore) ==
    [facultyIndex |-> 0, combinations |-> 0,
     bestScore |-> initialBestScore + 1]

InitialProgressState(initialBestScore) ==
    [facultyIndex |-> 0, combinations |-> 0, bestScore |-> initialBestScore]

(* Variant: progressState is one object of the worker, set up again by    *)
(* every start request and seen by every search still running.              *)
ReceiveStartShared ==
    /\ Deliverable
    /\ Head(inbox).hasData
    /\ FirstFault(Head(inbox)) = "none"
    /\ \E rand \in RandomDraws(Len(Head(inbox).allFaculty)) :
          shuffledFaculty' = [shuffledFaculty EXCEPT ![delivered + 1] =
                shuffleArray(Head(inbox).allFaculty, rand)]
    /\ inbox' = Tail(inbox)
    /\ delivered' = delivered + 1
    /\ hstate' = [hstate EXCEPT ![delivered + 1] = "running"]
    /\ active' = delivered + 1
    /\ req' = [req EXCEPT ![delivered + 1] = Head(inbox)]
    /\ schedule' = [schedule EXCEPT ![delivered + 1] = <<>>]
    /\ assignedLectureSlots' = [assignedLectureSlots EXCEPT
            ![delivered + 1] = {}]
    /\ facultyTimeSlotMap' = [facultyTimeSlotMap EXCEPT
            ![delivered + 1] = <<>>]
    /\ progressState' = [h \in Handlers |->
            IF h = delivered + 1 \/ hstate[h] = "running"
            THEN InitialProgressState(Head(inbox).initialBestScore)
            ELSE progressState[h]]
    /\ stack' = [stack EXCEPT ![delivered + 1] = <<Frame(0, 0)>>]
    /\ UNCHANGED <<out, cancelSeen>>

(* lines 116-132, 22-38, 104-105: set up the run, shuffle a copy of the     *)
(* faculty list and call solveForFaculty(0, 0).                             *)
ReceiveStart ==
    /\ Deliverable
    /\ Head(inbox).hasData
    /\ FirstFault(Head(inbox)) = "none"
    /\ \E rand \in RandomDraws(Len(Head(inbox).allFaculty)) :
          shuffledFaculty' = [shuffledFaculty EXCEPT ![delivered + 1] =
                shuffleArray(Head(inbox).allFaculty, rand)]
    /\ inbox' = Tail(inbox)
    /\ delivered' = delivered + 1
    /\ hstate' = [hstate EXCEPT ![delivered + 1] = "running"]
    /\ active' = delivered + 1
    /\ req' = [req EXCEPT ![delivered + 1] = Head(inbox)]
    /\ schedule' = [schedule EXCEPT ![delivered + 1] = <<>>]
    /\ assignedLectureSlots' = [assignedLectureSlots EXCEPT
            ![delivered + 1] = {}]
    /\ facultyTimeSlotMap' = [facultyTimeSlotMap EXCEPT
            ![delivered + 1] = <<>>]
    /\ progressState' = [progressState EXCEPT ![delivered + 1] =
            InitialProgressState(Head(inbox).initialBestScore)]
    /\ stack' = [stack EXCEPT ![delivered + 1] = <<Frame(0, 0)>>]
    /\ UNCHANGED <<out, cancelSeen>>

Next ==
    \/ ReceiveNoPayload
    \/ ReceiveMalformed
    \/ ReceiveStart
    \/ \E h \in Handlers : Prune(h)
    \/ \E h \in Handlers : Solution(h)
    \/ \E h \in Handlers : ProgressYield(h)
    \/ \E h \in Handlers : TimerFires(h)
    \/ \E h \in Handlers : Generate(h)
    \/ \E h \in Handlers : TryCandidate(h)
    \/ \E h \in Handlers : Return(h)
    \/ \E h \in Handlers : Complete(h)

Spec == Init /\ [][Next]_vars

(* A long search followed by messages that carry no search of their own.    *)
InitLong ==
    \E m \in LongRequests, k \in 0..(MaxMsgs - 1) :
        \E t \in [1..k -> {NoPayload} \cup MalformedPayloads] :
            InitWith(<<m>> \o t)

SpecLong == InitLong /\ [][Next]_vars

(* A reporting search, alone or followed by one message that starts no    *)
(* search.                                                                  *)
InitReport ==
    \E m \in ReportRequests :
        \/ InitWith(<<m>>)
        \/ \E n \in {NoPayload} \cup MalformedPayloads : InitWith(<<m, n>>)

SpecReport == InitReport /\ [][Next]_vars

(* Two messages in the queue: a start request, then another start request, *)
(* a message without payload or a malformed one. The second is delivered    *)
(* when the first handler yields or ends.                                   *)
InitPair ==
    \E m \in PairRequests :
        \E n \in PairRequests \cup {NoPayload} \cup MalformedPayloads :
            InitWith(<<m, n>>)

SpecPair == InitPair /\ [][Next]_vars

(* The requests of Init and those with a repeated faculty member.           *)
InitWide ==
    \/ Init
    \/ \E m \in DuplicateFacultyRequests : InitWith(<<m>>)

SpecWide == InitWide /\ [][Next]_vars

(* The worker keeps executing the code it has started, the event loop       *)
(* delivers queued messages, and every timer set by yieldWorker fires.      *)
Fairness ==
    /\ WF_vars(Next)
    /\ \A h \in Handlers : WF_vars(TimerFires(h))

SpecFair == Init /\ [][Next]_vars /\ Fairness

(* ======================================================================= *)
(* Properties                                                               *)
(* ======================================================================= *)
OfType(h, t) == LET Is(m) == m.type = t IN SelectSeq(out[h], Is)

Solutions(h) == OfType(h, "solutionUpdate")

(* Handler h was given a payload that starts a search.                      *)
IsSearch(h) == hstate[h] \in {"running", "done"} /\ FirstFault(req[h]) = "none"

SearchDone(h) == IsSearch(h) /\ hstate[h] = "done"

Distinct(s) == \A a, b \in DOMAIN s : a # b => s[a] # s[b]

DistinctIds(lects) == \A a, b \in DOMAIN lects : a # b => lects[a].id # lects[b].id

DistinctInput(h) ==
    Distinct(req[h].allFaculty) /\ DistinctIds(req[h].allLectureSlots)

(* Reference, independent of the search: the preferred time slots a request *)
(* declares, every assignment of one lecture per faculty member with no     *)
(* lecture id used twice, and the least number of non-preferred entries.    *)
DeclaredPreferred(r, faculty) ==
    {t \in TimeSlots : \E i \in DOMAIN r.facultyPreferredSlots :
        /\ r.facultyPreferredSlots[i][1] = faculty
        /\ t \in Range(r.facultyPreferredSlots[i][2])}

ValidAssignments(r) ==
    {g \in [DOMAIN r.allFaculty -> DOMAIN r.allLectureSlots] :
        \A a, b \in DOMAIN r.allFaculty :
            a # b => r.allLectureSlots[g[a]].id # r.allLectureSlots[g[b]].id}

NonPreferred(r, g) ==
    Cardinality({d \in DOMAIN r.allFaculty :
        r.allLectureSlots[g[d]].timeSlot
            \notin DeclaredPreferred(r, r.allFaculty[d])})

BruteForceMin(r) ==
    LET scores == {NonPreferred(r, g) : g \in ValidAssignments(r)}
    IN CHOOSE m \in scores : \A x \in scores : m <= x

FinalScore(h) == Last(out[h]).finalScore

(* C1: with distinct faculty and lecture ids, an initial bound above the    *)
(* faculty count and at least one valid complete assignment, the finalScore *)
(* of the complete message is the brute-force minimum number of             *)
(* non-preferred assignments.                                               *)
C1_FinalScoreIsBruteForceMin ==
    \A h \in Handlers :
        (/\ SearchDone(h)
         /\ DistinctInput(h)
         /\ req[h].initialBestScore >= Len(req[h].allFaculty) + 1
         /\ ValidAssignments(req[h]) # {})
        => /\ Last(out[h]).type = "complete"
           /\ FinalScore(h) = BruteForceMin(req[h])

C1_Witness ==
    \E h \in Handlers :
        /\ SearchDone(h)
        /\ DistinctInput(h)
        /\ Len(req[h].allFaculty) >= 2
        /\ req[h].initialBestScore >= Len(req[h].allFaculty) + 1
        /\ ValidAssignments(req[h]) # {}
        /\ Len(Solutions(h)) >= 2
        /\ FinalScore(h) = BruteForceMin(req[h])

(* C2: in every solution message (distinct faculty and lecture ids) each    *)
(* listed faculty member appears exactly once, no lecture id appears twice, *)
(* and isHappy holds exactly when the lecture's time slot is preferred by   *)
(* that faculty member.                                                     *)
ValidSolution(r, sched) ==
    /\ Len(sched) = Len(r.allFaculty)
    /\ \A f \in Range(r.allFaculty) :
          Cardinality({i \in DOMAIN sched : sched[i][1] = f}) = 1
    /\ \A a, b \in DOMAIN sched :
          a # b => sched[a][2].lecture.id # sched[b][2].lecture.id
    /\ \A i \in DOMAIN sched :
          sched[i][2].isHappy <=>
              (sched[i][2].lecture.timeSlot
                  \in DeclaredPreferred(r, sched[i][1]))

C2_SolutionsAreValid ==
    \A h \in Handlers :
        (IsSearch(h) /\ DistinctInput(h))
        => \A k \in DOMAIN Solutions(h) :
              ValidSolution(req[h], Solutions(h)[k].schedule)

C2_Witness ==
    \E h \in Handlers :
        /\ IsSearch(h)
        /\ DistinctInput(h)
        /\ \E k \in DOMAIN Solutions(h) :
              LET sched == Solutions(h)[k].schedule
              IN /\ Len(sched) >= 2
                 /\ ValidSolution(req[h], sched)
                 /\ \E i, j \in DOMAIN sched :
                       sched[i][2].isHappy /\ ~sched[j][2].isHappy

(* C3: within one run the scores of successive solution messages strictly   *)
(* decrease, and the first is strictly below initialBestScore.              *)
C3_ScoresStrictlyDecrease ==
    \A h \in Handlers :
        IsSearch(h)
        => \A k \in DOMAIN Solutions(h) :
              Solutions(h)[k].score <
                  (IF k = 1 THEN req[h].initialBestScore
                   ELSE Solutions(h)[k - 1].score)

C3_Witness ==
    \E h \in Handlers :
        /\ IsSearch(h)
        /\ Len(Solutions(h)) >= 2
        /\ Solutions(h)[2].score < Solutions(h)[1].score
        /\ Solutions(h)[1].score < req[h].initialBestScore

(* C4: a run posts the complete message exactly once, as its last message:  *)
(* none while the search is under way, one when the handler has finished,   *)
(* and nothing after it.                                                    *)
C4_CompleteOnceAndLast ==
    \A h \in Handlers :
        IsSearch(h)
        => /\ hstate[h] = "running" => Len(OfType(h, "complete")) = 0
           /\ hstate[h] = "done" =>
                 /\ Len(OfType(h, "complete")) = 1
                 /\ Last(out[h]).type = "complete"

C4_Witness ==
    \E h \in Handlers :
        /\ SearchDone(h)
        /\ Len(OfType(h, "progressUpdate")) >= 1
        /\ Len(Solutions(h)) >= 1
        /\ Len(OfType(h, "complete")) = 1
        /\ Last(out[h]).type = "complete"

(* C5: if no complete assignment scores strictly below initialBestScore     *)
(* (or none exists at all), the run posts no solution message and its       *)
(* complete message reports finalScore = initialBestScore.                  *)
NoImprovement(r) ==
    \A g \in ValidAssignments(r) : NonPreferred(r, g) >= r.initialBestScore

C5_NoImprovementKeepsBound ==
    \A h \in Handlers :
        IsSearch(h)
        => /\ Solutions(h) # <<>> => ~NoImprovement(req[h])
           /\ (hstate[h] = "done" /\ NoImprovement(req[h])) =>
                 /\ Last(out[h]).type = "complete"
                 /\ FinalScore(h) = req[h].initialBestScore

C5_Witness ==
    \E h \in Handlers :
        /\ SearchDone(h)
        /\ NoImprovement(req[h])
        /\ ValidAssignments(req[h]) # {}
        /\ Len(req[h].allFaculty) >= 1
        /\ req[h].initialBestScore >= 1
        /\ progressState[h].combinations >= 2
        /\ Solutions(h) = <<>>
        /\ FinalScore(h) = req[h].initialBestScore

(* C6 (as claimed): once a payload-free message has been delivered to a     *)
(* running search, the search makes at most 1000 further candidate          *)
(* attempts before it stops.                                                *)
C6_CancelStopsWithinInterval ==
    \A h \in Handlers :
        cancelSeen[h].seen
        => progressState[h].combinations - cancelSeen[h].combinations
               <= ProgressInterval

(* C7 (as claimed): a run never makes more than 1000 candidate attempts     *)
(* past its latest progress message.                                        *)
LastReported(h) ==
    IF OfType(h, "progressUpdate") = <<>> THEN 0
    ELSE Last(OfType(h, "progressUpdate")).combinations

C7_ReportEveryInterval ==
    \A h \in Handlers :
        IsSearch(h)
        => progressState[h].combinations - LastReported(h) <= ProgressInterval

(* C8 (as claimed): a handled message ends with exactly one terminal        *)
(* message, error if a fault was raised while handling it and complete      *)
(* otherwise.                                                               *)
Terminal(h) ==
    LET Is(m) == m.type \in {"complete", "error"} IN SelectSeq(out[h], Is)

FaultRaised(h) == ~req[h].hasData \/ FirstFault(req[h]) # "none"

C8_OneTerminalMessage ==
    \A h \in Handlers :
        hstate[h] \in {"done", "rejected"}
        => /\ Len(Terminal(h)) = 1
           /\ Terminal(h)[1].type = (IF FaultRaised(h) THEN "error"
                                     ELSE "complete")

(* C9 (as claimed): a start request with duplicate lecture ids, or with a   *)
(* preference entry for a faculty member not in the faculty list, posts no  *)
(* progress, solution or complete message.                                  *)
MalformedData(r) ==
    /\ r.hasData
    /\ FirstFault(r) = "none"
    /\ \/ ~DistinctIds(r.allLectureSlots)
       \/ \E i \in DOMAIN r.facultyPreferredSlots :
             r.facultyPreferredSlots[i][1] \notin Range(r.allFaculty)

C9_MalformedDataNeverSearched ==
    \A h \in Handlers :
        (hstate[h] # "pending" /\ MalformedData(req[h]))
        => \A k \in DOMAIN out[h] : out[h][k].type = "error"

(* C10: the finalScore of a completed run is determined by the request      *)
(* alone, whatever the shuffle produced: it is the lower of                 *)
(* initialBestScore and the least score of a valid complete assignment, so  *)
(* two runs on identical inputs report the same finalScore.                 *)
DeterminedFinalScore(r) ==
    IF NoImprovement(r) THEN r.initialBestScore ELSE BruteForceMin(r)

C10_FinalScoreDeterminedByRequest ==
    \A h \in Handlers :
        SearchDone(h) => FinalScore(h) = DeterminedFinalScore(req[h])

C10_Witness ==
    \E h \in Handlers :
        /\ SearchDone(h)
        /\ shuffledFaculty[h] # req[h].allFaculty
        /\ Len(Solutions(h)) >= 1
        /\ FinalScore(h) = DeterminedFinalScore(req[h])

(* C11: for faculty [A, B], lecture slots 1 and 2 at 9am and 3 at 10am,     *)
(* preferences A: {10am}, B: {} and initialBestScore 2, the run posts a     *)
(* solution of score 1 in which A holds lecture 3 (preferred) and B holds   *)
(* lecture 1 or 2 (not preferred), and the complete message reports         *)
(* finalScore 1.                                                            *)
ScenarioRequest ==
    StartRequest(<<"A", "B">>,
                 <<[id |-> 1, timeSlot |-> "9am"],
                   [id |-> 2, timeSlot |-> "9am"],
                   [id |-> 3, timeSlot |-> "10am"]>>,
                 << <<"A", <<"10am">> >> >>, 2)

ScenarioSolution(m) ==
    /\ m.score = 1
    /\ \E i, j \in DOMAIN m.schedule :
          /\ m.schedule[i][1] = "A"
          /\ m.schedule[i][2].lecture.id = 3
          /\ m.schedule[i][2].isHappy
          /\ m.schedule[j][1] = "B"
          /\ m.schedule[j][2].lecture.id \in {1, 2}
          /\ ~m.schedule[j][2].isHappy

C11_ScenarioFindsScoreOne ==
    \A h \in Handlers :
        (SearchDone(h) /\ req[h] = ScenarioRequest)
        => /\ \E k \in DOMAIN Solutions(h) : ScenarioSolution(Solutions(h)[k])
           /\ Last(out[h]).type = "complete"
           /\ FinalScore(h) = 1

C11_Witness ==
    \E h \in Handlers :
        /\ SearchDone(h)
        /\ req[h] = ScenarioRequest
        /\ \E k \in DOMAIN Solutions(h) : ScenarioSolution(Solutions(h)[k])
        /\ FinalScore(h) = 1

(* C12: for a well-formed request, if every yield timer eventually fires,   *)
(* the search exhausts its space and the complete message is eventually     *)
(* posted; the recursion never goes deeper than the faculty-list length.    *)
DepthBounded(h) ==
    /\ Len(stack[h]) <= Len(req[h].allFaculty) + 1
    /\ \A k \in DOMAIN stack[h] :
          stack[h][k].facultyIndex = k - 1

Completed(h) ==
    /\ hstate[h] = "done"
    /\ out[h] # <<>>
    /\ Last(out[h]).type = "complete"

C12_SearchTerminates ==
    \A h \in Handlers :
        /\ [](IsSearch(h) => DepthBounded(h))
        /\ (IsSearch(h) ~> Completed(h))

C12_Witness ==
    \E h \in Handlers :
        /\ Completed(h)
        /\ Len(req[h].allFaculty) = 2
        /\ Len(OfType(h, "progressUpdate")) >= 1
        /\ progressState[h].combinations >= 4

(* C13: backtracking restores the search state.  The schedule, the consumed *)
(* lecture ids and each faculty member's consumed time slots always equal   *)
(* what the calls below the innermost one currently hold (their candidate   *)
(* in progress), and those calls do not change while an inner call is       *)
(* live; so a call returns in the state it was entered in, and all three    *)
(* are empty when the top-level call has returned.                          *)
HeldBy(h) ==
    [k \in 1..(Len(stack[h]) - 1) |->
        <<FacultyAt(h, k - 1), stack[h][k].possible[stack[h][k].i]>>]

StateIsHeldByCallers(h) ==
    /\ schedule[h] = HeldBy(h)
    /\ assignedLectureSlots[h] =
          {HeldBy(h)[k][2].lecture.id : k \in DOMAIN HeldBy(h)}
    /\ \A f \in Range(req[h].allFaculty) :
          GetOrEmpty(facultyTimeSlotMap[h], f) =
              {HeldBy(h)[k][2].lecture.timeSlot :
                  k \in {j \in DOMAIN HeldBy(h) : HeldBy(h)[j][1] = f}}

CallersUntouched(h) ==
    \A k \in DOMAIN stack[h] :
        (k < Len(stack[h]) /\ k < Len(stack'[h]))
        => stack'[h][k] = stack[h][k]

C13_BacktrackRestoresState ==
    /\ [](\A h \in Handlers :
            (IsSearch(h) /\ DistinctInput(h)) => StateIsHeldByCallers(h))
    /\ [][\A h \in Handlers : CallersUntouched(h)]_vars

C13_Witness ==
    \E h \in Handlers :
        /\ IsSearch(h)
        /\ DistinctInput(h)
        /\ hstate[h] = "running"
        /\ stack[h] = <<>>
        /\ progressState[h].combinations >= 4
        /\ DOMAIN facultyTimeSlotMap[h] = {"A", "B"}
        /\ schedule[h] = <<>>
        /\ assignedLectureSlots[h] = {}
        /\ \A f \in DOMAIN facultyTimeSlotMap[h] : facultyTimeSlotMap[h][f] = {}

(* C14: the score of every solution message is the number of entries of its *)
(* schedule with isHappy false; and whenever solveForFaculty(d, s) is       *)
(* entered, the schedule holds exactly the first d faculty members and s is *)
(* the number of its entries with isHappy false.                            *)
UnhappyCount(sched) ==
    Cardinality({i \in DOMAIN sched : ~sched[i][2].isHappy})

Keys(sched) == [i \in DOMAIN sched |-> sched[i][1]]

RECURSIVE Ascending(_)
Ascending(S) ==
    IF S = {} THEN <<>>
    ELSE LET least == CHOOSE x \in S : \A y \in S : x <= y
         IN <<least>> \o Ascending(S \ {least})

ExpectedCandidates(r, consumedIds, consumedTimes, faculty) ==
    LET free == {k \in DOMAIN r.allLectureSlots :
                    /\ r.allLectureSlots[k].id \notin consumedIds
                    /\ r.allLectureSlots[k].timeSlot \notin consumedTimes}
        happy == {k \in free : r.allLectureSlots[k].timeSlot
                                   \in DeclaredPreferred(r, faculty)}
        order == Ascending(happy) \o Ascending(free \ happy)
    IN [n \in DOMAIN order |->
           [lecture |-> r.allLectureSlots[order[n]],
            isHappy |-> order[n] \in happy]]

JustGenerated(h) ==
    /\ IsSearch(h)
    /\ stack[h] # <<>>
    /\ Top(h).pc = "loop"
    /\ Top(h).i = 1

C15_CandidateList ==
    \A h \in Handlers :
        JustGenerated(h)
        => Top(h).possible =
              ExpectedCandidates(req[h], assignedLectureSlots[h],
                  GetOrEmpty(facultyTimeSlotMap[h],
                             FacultyAt(h, Top(h).facultyIndex)),
                  FacultyAt(h, Top(h).facultyIndex))

C15_Witness ==
    \E h \in Handlers :
        /\ JustGenerated(h)
        /\ assignedLectureSlots[h] # {}
        /\ Len(Top(h).possible) = 2
        /\ Top(h).possible[1].isHappy
        /\ ~Top(h).possible[2].isHappy
        /\ Top(h).possible[1].lecture.id > Top(h).possible[2].lecture.id

(* C16: a node entered with currentUnhappy >= the best score is abandoned   *)
(* with no effect: the call returns at once, no candidate is enumerated,    *)
(* the node counter, the messages and the search state stay as they are.    *)
(* With initialBestScore <= 0 the run explores no node, posts no progress   *)
(* and no solution message and completes with finalCombinations = 0 and     *)
(* finalScore = initialBestScore.                                           *)
EnteredAtOrAboveBest(h) ==
    /\ active = h
    /\ hstate[h] = "running"
    /\ stack[h] # <<>>
    /\ Top(h).pc = "enter"
    /\ Top(h).currentUnhappy >= progressState[h].bestScore

AbandonedUntouched(h) ==
    /\ stack'[h] = [stack[h] EXCEPT ![Len(stack[h])].pc = "ret"]
    /\ progressState'[h] = progressState[h]
    /\ out'[h] = out[h]
    /\ schedule'[h] = schedule[h]
    /\ assignedLectureSlots'[h] = assignedLectureSlots[h]
    /\ facultyTimeSlotMap'[h] = facultyTimeSlotMap[h]

NothingExplored(h) ==
    /\ progressState[h].combinations = 0
    /\ progressState[h].bestScore = req[h].initialBestScore
    /\ OfType(h, "progressUpdate") = <<>>
    /\ Solutions(h) = <<>>
    /\ hstate[h] = "done" =>
          out[h] = <<[type |-> "complete", finalCombinations |-> 0,
                      finalScore |-> req[h].initialBestScore]>>

C16_PrunedNodeHasNoEffect ==
    /\ [][\A h \in Handlers :
            EnteredAtOrAboveBest(h) => AbandonedUntouched(h)]_vars
    /\ [](\A h \in Handlers :
            (IsSearch(h) /\ req[h].initialBestScore <= 0)
            => NothingExplored(h))

C16_Witness ==
    \E h \in Handlers :
        /\ IsSearch(h)
        /\ req[h].initialBestScore > 0
        /\ Len(req[h].allFaculty) = 2
        /\ stack[h] # <<>>
        /\ Top(h).facultyIndex = 1
        /\ Top(h).pc = "ret"
        /\ Top(h).possible = <<>>
        /\ Top(h).currentUnhappy >= progressState[h].bestScore
        /\ Len(Solutions(h)) >= 1

(* C17: bestScore starts at initialBestScore and never increases; it       *)
(* changes only at a terminal node, to that node's currentUnhappy, in the   *)
(* step that posts the solutionUpdate carrying the new value. The           *)
(* finalScore of the complete message is the score of the last              *)
(* solutionUpdate, or initialBestScore when there was none.                 *)
BestScoreStarts(h) ==
    (hstate[h] = "pending" /\ hstate'[h] = "running")
    => progressState'[h].bestScore = req'[h].initialBestScore

BestScoreMoves(h) ==
    (IsSearch(h) /\ progressState'[h].bestScore # progressState[h].bestScore)
    => /\ progressState'[h].bestScore < progressState[h].bestScore
       /\ stack[h] # <<>>
       /\ IsTerminal(h, Top(h))
       /\ progressState'[h].bestScore = Top(h).currentUnhappy
       /\ out'[h] = Append(out[h], SolutionMessage(schedule[h],
                                      progressState'[h].bestScore))

BestScoreKept(h) ==
    (IsSearch(h) /\ out'[h] # out[h] /\ Last(out'[h]).type # "solutionUpdate")
    => progressState'[h].bestScore = progressState[h].bestScore

LastSolutionOrInitial(h) ==
    IF Solutions(h) = <<>> THEN req[h].initialBestScore
    ELSE Last(Solutions(h)).score

C17_BestScoreOnlyImproves ==
    /\ [][\A h \in Handlers :
            BestScoreStarts(h) /\ BestScoreMoves(h) /\ BestScoreKept(h)]_vars
    /\ [](\A h \in Handlers :
            /\ IsSearch(h) => progressState[h].bestScore = LastSolutionOrInitial(h)
            /\ SearchDone(h) => FinalScore(h) = LastSolutionOrInitial(h))

C17_Witness ==
    \E h \in Handlers :
        /\ SearchDone(h)
        /\ Len(Solutions(h)) = 2
        /\ Solutions(h)[1].score < req[h].initialBestScore
        /\ FinalScore(h) = Solutions(h)[2].score
        /\ FinalScore(h) < Solutions(h)[1].score

(* C18: the faculty order is fixed for the run and is the order of the      *)
(* request's faculty list: the frame at depth d works on allFaculty[d],     *)
(* the entries of the schedule and of every emitted schedule follow that    *)
(* order, and the shuffle at search start leaves the order and the          *)
(* request's faculty list as they were.                                     *)
IsPrefixOf(s, t) ==
    /\ Len(s) <= Len(t)
    /\ \A k \in 1..Len(s) : s[k] = t[k]

DepthOrder(h) ==
    /\ \A k \in 1..Len(stack[h]) : stack[h][k].facultyIndex = k - 1
    /\ IsPrefixOf(Keys(schedule[h]), req[h].allFaculty)
    /\ stack[h] # <<>> => Len(schedule[h]) \in {Len(stack[h]) - 1, Len(stack[h])}
    /\ \A k \in 1..Len(Solutions(h)) :
          Keys(Solutions(h)[k].schedule) = req[h].allFaculty
    /\ \A k \in 1..Len(OfType(h, "progressUpdate")) :
          LET m == OfType(h, "progressUpdate")[k]
          IN  m.facultyName = req[h].allFaculty[m.facultyIndex + 1]

FacultyListKept(h) ==
    /\ (hstate[h] = "pending" /\ hstate'[h] = "running")
       => req'[h].allFaculty = Head(inbox).allFaculty
    /\ IsSearch(h) => req'[h].allFaculty = req[h].allFaculty

RECURSIVE SoloSolve(_, _, _, _)
RECURSIVE SoloLoop(_, _, _, _, _, _)
SoloSolve(r, facultyIndex, currentUnhappy, st) ==
    IF currentUnhappy >= st.progressState.bestScore THEN st
    ELSE IF facultyIndex = Len(r.allFaculty)
    THEN [st EXCEPT !.progressState.facultyIndex = facultyIndex,
                    !.progressState.bestScore = currentUnhappy,
                    !.out = Append(@, SolutionMessage(st.schedule,
                                                      currentUnhappy))]
    ELSE LET faculty == r.allFaculty[facultyIndex + 1]
             reported ==
                 IF st.progressState.combinations % ProgressInterval = 0
                 THEN [st EXCEPT !.out = Append(@,
                          ProgressMessage(facultyIndex, faculty,
                                          st.progressState.combinations))]
                 ELSE st
             possible ==
                 Possible(r.allLectureSlots, st.assignedLectureSlots,
                          GetOrEmpty(st.facultyTimeSlotMap, faculty),
                          GetOrEmpty(ReconstructPreferredSlots(
                                         r.facultyPreferredSlots), faculty))
         IN SoloLoop(r, facultyIndex, currentUnhappy, possible, 1,
                     [reported EXCEPT
                         !.progressState.facultyIndex = facultyIndex])

SoloLoop(r, facultyIndex, currentUnhappy, possible, i, st) ==
    IF i > Len(possible) THEN st
    ELSE LET c == possible[i]
             faculty == r.allFaculty[facultyIndex + 1]
             assignedTimes == GetOrEmpty(st.facultyTimeSlotMap, faculty)
             tried ==
                 [st EXCEPT
                    !.progressState.combinations = @ + 1,
                    !.schedule = MapSet(@, faculty, c),
                    !.assignedLectureSlots = @ \cup {c.lecture.id},
                    !.facultyTimeSlotMap =
                        [k \in DOMAIN @ \cup {faculty} |->
                            IF k = faculty
                            THEN assignedTimes \cup {c.lecture.timeSlot}
                            ELSE @[k]]]
             back == SoloSolve(r, facultyIndex + 1,
                               NewUnhappy(currentUnhappy, c.isHappy), tried)
             b == Backtrack(
                     [schedule |-> back.schedule,
                      assignedLectureSlots |-> back.assignedLectureSlots,
                      facultyTimeSlotMap |-> back.facultyTimeSlotMap],
                     faculty, c)
         IN SoloLoop(r, facultyIndex, currentUnhappy, possible, i + 1,
                     [back EXCEPT
                        !.schedule = b.schedule,
                        !.assignedLectureSlots = b.assignedLectureSlots,
                        !.facultyTimeSlotMap = b.facultyTimeSlotMap])

SoloRun(r) ==
    LET end == SoloSolve(r, 0, 0,
                   [schedule |-> <<>>, assignedLectureSlots |-> {},
                    facultyTimeSlotMap |-> <<>>,
                    progressState |->
                        [facultyIndex |-> 0, combinations |-> 0,
                         bestScore |-> r.initialBestScore],
                    out |-> <<>>])
    IN end.out \o
       <<[type |-> "complete",
          finalCombinations |-> end.progressState.combinations,
          finalScore |-> end.progressState.bestScore]>>

OthersStarted(h) ==
    \E g \in Handlers \ {h} : hstate[g] # "pending"

C19_InterleavedRunsAreIndependent ==
    \A h \in Handlers :
        (IsSearch(h) /\ active = 0 /\ OthersStarted(h))
        => /\ IsPrefixOf(out[h], SoloRun(req[h]))
           /\ hstate[h] = "done" => out[h] = SoloRun(req[h])

C19_Witness ==
    /\ Suspended(1)
    /\ SearchDone(2)
    /\ req[1].initialBestScore # req[2].initialBestScore
    /\ req[1].facultyPreferredSlots # req[2].facultyPreferredSlots
    /\ Len(Solutions(2)) = 2
    /\ out[2] = SoloRun(req[2])
    /\ FinalScore(2) < req[1].initialBestScore

(* C20: every progress message reports a node count that is a multiple of   *)
(* the interval and equals the attempts made when it is posted, the depth   *)
(* of the node being entered as facultyIndex, and allFaculty[facultyIndex]  *)
(* as facultyName; successive progress messages carry strictly increasing   *)
(* counts and the count of the complete message is at least each of them.   *)
ProgressUpdates(h) == OfType(h, "progressUpdate")

ProgressWellFormed(h) ==
    LET P == ProgressUpdates(h)
    IN /\ \A k \in 1..Len(P) :
             /\ P[k].combinations % ProgressInterval = 0
             /\ P[k].facultyIndex \in 0..(Len(req[h].allFaculty) - 1)
             /\ P[k].facultyName = req[h].allFaculty[P[k].facultyIndex + 1]
             /\ P[k].combinations <= progressState[h].combinations
       /\ \A k \in 1..(Len(P) - 1) :
             P[k].combinations < P[k + 1].combinations
       /\ hstate[h] = "done" =>
             \A k \in 1..Len(P) :
                 P[k].combinations <= Last(out[h]).finalCombinations

ProgressReportsNow(h) ==
    (/\ IsSearch(h)
     /\ Len(out'[h]) = Len(out[h]) + 1
     /\ Last(out'[h]).type = "progressUpdate")
    => /\ Last(out'[h]).combinations = progressState[h].combinations
       /\ Last(out'[h]).facultyIndex = Len(stack[h]) - 1
       /\ Top(h).pc = "enter"

C20_ProgressMessages ==
    /\ [](\A h \in Handlers : IsSearch(h) => ProgressWellFormed(h))
    /\ [][\A h \in Handlers : ProgressReportsNow(h)]_vars

C20_Witness ==
    \E h \in Handlers :
        /\ SearchDone(h)
        /\ Len(ProgressUpdates(h)) = 2
        /\ ProgressUpdates(h)[1].combinations = 0
        /\ ProgressUpdates(h)[1].facultyIndex = 0
        /\ ProgressUpdates(h)[2].combinations = ProgressInterval
        /\ ProgressUpdates(h)[2].facultyIndex = 1
        /\ ProgressUpdates(h)[2].facultyName = "B"
        /\ Last(out[h]).finalCombinations > ProgressInterval

====
